---- MODULE Spec2Model ----
(***************************************************************************)
(* The registry index: a sqlite catalog of repositories and tags kept up   *)
(* to date by the notification sink IndexService.Write, read by            *)
(* IndexService.GetPage and annotated by IndexService.SetTagStatus         *)
(* (registry/index/index.go, registry/handlers/tag_status.go), and the     *)
(* handler of the listing, indexHandler.GetPage (unnamed/part_000).        *)
(*                                                                         *)
(* Strings that the code takes apart (URLs, repository names, tag names)   *)
(* are sequences of one-character strings; <<>> is the empty string.       *)
(* A table is the sequence of its rows in rowid order: both tables declare *)
(* "id integer primary key" without AUTOINCREMENT, so an inserted row gets *)
(* the largest rowid so far plus one and is the last row of the sequence.  *)
(* Every db.Exec is one autocommit statement: it is atomic, and it either  *)
(* takes effect or fails without effect.                                   *)
(***************************************************************************)
EXTENDS Integers, Sequences, FiniteSets, TLC

VARIABLES repositories, tags, now, pc, left, cur, prev, ret, taken, http,
          plan, get, pager

vars == <<repositories, tags, now, pc, left, cur, prev, ret, taken, http, plan, get, pager>>

\* What belongs to the readers of the catalog: the way sqlite scans the
\* repositories table, the last call of GetPage, and a client that pages.
others == <<plan, get, pager>>

-----------------------------------------------------------------------------
(* Bounds of the model *)

\* Events handed to Write in all: under Spec, SpecSeq, SpecPatch, SpecFail.
MaxEvents == 2
MaxSeqEvents == 4
MaxPatchEvents == 2
MaxFailEvents == 3
\* Events of one batch, PATCH requests, and the last reading of the clock.
MaxBatch == 3
MaxPatch == 1
MaxClock == 1
\* Under SpecTag: events handed to Write in all, and the longest URL.
MaxTagEvents == 2
MaxURLLen == 3
\* Events handed to Write in all under SpecPage, SpecForm, SpecRepush,
\* SpecScan and SpecRead; the largest limit and the largest first skip of the
\* client that pages.
MaxPageEvents == 3
MaxFormEvents == 2
MaxRepushEvents == 3
MaxScanEvents == 2
MaxReadEvents == 3
MaxLimit == 2
MaxSkip == 1

-----------------------------------------------------------------------------
(* Values *)

Writers == {1, 2}

ManifestMediaType == "application/vnd.docker.distribution.manifest.v1+json"
LayerMediaType == "application/vnd.docker.container.image.rootfs.diff+x-gtar"

EventActionPush == "push"
EventActionDelete == "delete"
EventActionPull == "pull"

Repos == {<<"a">>, <<"b">>}

URLs == {<<"m", "/", "v">>, <<"w">>}

Digests == {"sha256:1", "sha256:2"}

NoEvent == [action |-> "none", mediaType |-> "", repository |-> <<>>, url |-> <<>>, digest |-> ""]

Event(a, m, r, u, d) == [action |-> a, mediaType |-> m, repository |-> r, url |-> u, digest |-> d]

\* The events a batch is made of: every manifest push, every manifest delete
\* (a delete reads no digest), and events Write passes over.
Events ==
    {Event(EventActionPush, ManifestMediaType, r, u, d) : r \in Repos, u \in URLs, d \in Digests}
    \cup {Event(EventActionDelete, ManifestMediaType, r, u, "sha256:1") : r \in Repos, u \in URLs}
    \cup {Event(EventActionPull, ManifestMediaType, <<"a">>, <<"m", "/", "v">>, "sha256:2"),
          Event(EventActionPush, LayerMediaType, <<"a">>, <<"m", "/", "v">>, "sha256:2"),
          Event(EventActionDelete, LayerMediaType, <<"a">>, <<"m", "/", "v">>, "sha256:2")}

\* The characters URLs are made of under SpecTag, and every URL of them.
URLChars == {"/", "v"}

TagURLs == UNION {[1..n -> URLChars] : n \in 0..MaxURLLen}

\* Manifest pushes and deletes of repository a with every URL.
TagEvents ==
    {Event(a, ManifestMediaType, <<"a">>, u, "sha256:1") :
        a \in {EventActionPush, EventActionDelete}, u \in TagURLs}

\* Errors as the Go code sees them.
Nil == "nil"
ErrNoRows == "sql: no rows in result set"
ErrStorage == "sqlite error"

-----------------------------------------------------------------------------
(* strings.Split and parseTag *)

RECURSIVE SplitFrom(_, _, _)
\* The parts of s[i..] split at sep, part being the text of the current part so far.
SplitFrom(s, sep, part) ==
    IF s = <<>> THEN <<part>>
    ELSE IF Head(s) = sep THEN <<part>> \o SplitFrom(Tail(s), sep, <<>>)
    ELSE SplitFrom(Tail(s), sep, Append(part, Head(s)))

Split(s, sep) == SplitFrom(s, sep, <<>>)

\* Mutant: a URL without a slash is its own tag name.
parseTag_whole(url) ==
    LET parts == Split(url, "/")
        l == Len(parts)
    IN IF l > 1 THEN parts[l] ELSE url

parseTag(url) ==
    LET parts == Split(url, "/")
        l == Len(parts)
    IN IF l > 1 THEN parts[l] ELSE <<>>

-----------------------------------------------------------------------------
(* The statements *)

TagRow(repo, tag, digest, url, status, description, target_url, updated_at) ==
    [repository |-> repo, tag |-> tag, digest |-> digest, url |-> url, status |-> status,
     description |-> description, target_url |-> target_url, updated_at |-> updated_at]

\* replace into repositories(repository) values(?): the unique index idx_name
\* deletes the row of the same name, the new row gets a fresh rowid.
ReplaceIntoRepositories(repos, name) ==
    SelectSeq(repos, LAMBDA r : r # name) \o <<name>>

\* Mutant: a plain insert into a table without the unique index.
ReplaceIntoTags_insert(tgs, repo, tag, digest, url, t) ==
    tgs \o <<TagRow(repo, tag, digest, url, "unset", "", "", t)>>

\* Mutant: insert or ignore, the row of the same (repository, tag) is kept.
ReplaceIntoTags_ignore(tgs, repo, tag, digest, url, t) ==
    IF \E i \in DOMAIN tgs : tgs[i].repository = repo /\ tgs[i].tag = tag
    THEN tgs
    ELSE tgs \o <<TagRow(repo, tag, digest, url, "unset", "", "", t)>>

\* replace into tags(...) values(?,?,?,?,?,'unset','',''): the unique index
\* idx_name_tag deletes the row of the same (repository, tag).
ReplaceIntoTags(tgs, repo, tag, digest, url, t) ==
    SelectSeq(tgs, LAMBDA x : ~(x.repository = repo /\ x.tag = tag))
        \o <<TagRow(repo, tag, digest, url, "unset", "", "", t)>>

\* Mutant: the where clause leaves out the tag.
DeleteFromTags_repo(tgs, repo, tag) ==
    SelectSeq(tgs, LAMBDA x : x.repository # repo)

\* Mutant: the two arguments bound in the wrong order.
DeleteFromTags_swapped(tgs, repo, tag) ==
    SelectSeq(tgs, LAMBDA x : ~(x.repository = tag /\ x.tag = repo))

\* delete from tags where repository=? and tag=?
DeleteFromTags(tgs, repo, tag) ==
    SelectSeq(tgs, LAMBDA x : ~(x.repository = repo /\ x.tag = tag))

\* Mutant: the prune removes nothing.
DeleteOrphanRepositories_none(repos, tgs) == repos

\* Mutant: the prune removes one repository without a tag, the first, and no more.
DeleteOrphanRepositories_one(repos, tgs) ==
    LET orphans == {i \in DOMAIN repos : ~\E j \in DOMAIN tgs : tgs[j].repository = repos[i]}
    IN IF orphans = {} THEN repos
       ELSE LET k == CHOOSE i \in orphans : \A j \in orphans : i <= j
            IN SubSeq(repos, 1, k - 1) \o SubSeq(repos, k + 1, Len(repos))

\* delete from repositories where repository not in (select distinct repository from tags)
DeleteOrphanRepositories(repos, tgs) ==
    SelectSeq(repos, LAMBDA r : \E i \in DOMAIN tgs : tgs[i].repository = r)

\* Mutant: the where clause leaves out the tag.
UpdateTagStatus_repo(tgs, repo, tag, status, description, target_url) ==
    [i \in DOMAIN tgs |->
        IF tgs[i].repository = repo
        THEN [tgs[i] EXCEPT !.status = status, !.description = description,
                            !.target_url = target_url]
        ELSE tgs[i]]

\* update tags set status=?, description=?, target_url=? where repository=? and tag=?
UpdateTagStatus(tgs, repo, tag, status, description, target_url) ==
    [i \in DOMAIN tgs |->
        IF tgs[i].repository = repo /\ tgs[i].tag = tag
        THEN [tgs[i] EXCEPT !.status = status, !.description = description,
                            !.target_url = target_url]
        ELSE tgs[i]]

-----------------------------------------------------------------------------
(* The PATCH handler's inputs and results *)

Body(valid, r, t, s, d, u) ==
    [valid |-> valid, repository |-> r, tag |-> t, status |-> s, description |-> d, target_url |-> u]

\* A body that json.Decode rejects.
BadBody == Body(FALSE, <<>>, <<>>, "", "", "")

PatchTags == {<<"v">>, <<>>}

\* The decoded bodies: a map with the five string fields.
PatchBodies ==
    {Body(TRUE, r, t, s[1], s[2], s[3]) :
        r \in Repos, t \in PatchTags, s \in {<<"passed", "scanned", "http://ci/1">>}}

NoRequest == [n |-> 0, body |-> BadBody, code |-> 0]

\* IndexService.SetTagStatus returns the error of db.Exec, which is nil for an
\* UPDATE that ran, whatever the number of rows it matched.
SetTagStatusErr(tgs, repo, tag, ok) == IF ok THEN Nil ELSE ErrStorage

\* tagStatusHandler.SetTagStatus: the status code written for the error.
StatusCode(err) ==
    IF err = ErrNoRows THEN 404
    ELSE IF err # Nil THEN 500
    ELSE 204

-----------------------------------------------------------------------------
(* Write's dispatch *)

IsManifest(e) == e.mediaType = ManifestMediaType

IsDelete(e) == e.action = EventActionDelete

IsPush(e) == e.action = EventActionPush

\* Mutant: the media type is not looked at.
Dispatch_anyMedia(e) ==
    IF IsDelete(e) THEN "delete"
    ELSE IF IsPush(e) THEN "add"
    ELSE "skip"

\* What the body of Write's loop does with event e.
Dispatch(e) ==
    IF IsManifest(e)
    THEN IF IsDelete(e) THEN "delete"
         ELSE IF IsPush(e) THEN "add"
         ELSE "skip"
    ELSE "skip"

\* Mutant: the error is dropped and the loop goes on.
OnError_continue == "loop"

\* Where Write goes when delete or add returns an error: it returns.
OnError == "idle"

-----------------------------------------------------------------------------
(* GetPage: the arguments *)

defaultLimit == 20

QueryArgs(keyword, skip, limit) == [Keyword |-> keyword, Skip |-> skip, Limit |-> limit]

\* Mutant: only a negative limit is replaced.
prepare_negative(args) ==
    LET a == IF args.Skip < 0 THEN [args EXCEPT !.Skip = 0] ELSE args
    IN IF a.Limit < 0 THEN [a EXCEPT !.Limit = defaultLimit] ELSE a

\* QueryArgs.prepare
prepare(args) ==
    LET a == IF args.Skip < 0 THEN [args EXCEPT !.Skip = 0] ELSE args
    IN IF a.Limit < 1 THEN [a EXCEPT !.Limit = defaultLimit] ELSE a

Digits == <<"0", "1", "2", "3", "4", "5", "6", "7", "8", "9">>

IsDigit(c) == \E d \in DOMAIN Digits : Digits[d] = c

DigitValue(c) == (CHOOSE d \in DOMAIN Digits : Digits[d] = c) - 1

RECURSIVE ParseDigits(_, _)
\* The number that the digits s continue, n being the number read so far.
ParseDigits(s, n) ==
    IF s = <<>> THEN n ELSE ParseDigits(Tail(s), n * 10 + DigitValue(Head(s)))

\* strconv.Atoi, the error dropped: an optional sign and decimal digits give
\* their number, any other text gives 0. (Texts of numbers beyond the range
\* of int, for which Atoi returns the nearest int, are not among FormTexts.)
Atoi(s) ==
    LET signed == s # <<>> /\ Head(s) \in {"+", "-"}
        body == IF signed THEN Tail(s) ELSE s
    IN IF body = <<>> \/ \E i \in DOMAIN body : ~IsDigit(body[i]) THEN 0
       ELSE IF signed /\ Head(s) = "-" THEN 0 - ParseDigits(body, 0)
       ELSE ParseDigits(body, 0)

\* The form of a request: the texts of skip, limit and keyword, <<>> for a
\* parameter that is not given (r.Form.Get returns "").
Form(skip, limit, keyword) == [skip |-> skip, limit |-> limit, keyword |-> keyword]

NoForm == Form(<<>>, <<>>, <<>>)

FormTexts == {<<>>, <<"0">>, <<"1">>, <<"2">>, <<"-", "1">>, <<"+", "2">>, <<"x">>, <<"2", "x">>}

Keywords == {<<"a">>, <<"A">>, <<"b">>, <<"_">>, <<"%">>, <<"b", "a">>}

\* Requests that page without a keyword, and requests with a keyword only.
Forms ==
    {Form(sk, li, <<>>) : sk \in FormTexts, li \in FormTexts}
    \cup {Form(<<>>, <<>>, k) : k \in Keywords}

\* indexHandler.GetPage: the arguments it builds of the form.
HandlerArgs(form) == QueryArgs(form.keyword, Atoi(form.skip), Atoi(form.limit))

-----------------------------------------------------------------------------
(* GetPage: the queries *)

\* The repository names and events of the specifications that list.
ListRepos == {<<"a", "b">>, <<"A">>, <<"b">>}

ListEvents ==
    {Event(EventActionPush, ManifestMediaType, r, <<"m", "/", "v">>, "sha256:1") : r \in ListRepos}

\* sqlite's LIKE folds the case of ASCII letters.
Lower(c) ==
    CASE c = "A" -> "a"
      [] c = "B" -> "b"
      [] OTHER -> c

RECURSIVE Like(_, _)
\* s like p, as sqlite has it: "%" stands for any text, "_" for any one
\* character, and a letter for itself in either case; there is no escape.
Like(p, s) ==
    IF p = <<>> THEN s = <<>>
    ELSE IF Head(p) = "%"
    THEN Like(Tail(p), s) \/ (s # <<>> /\ Like(p, Tail(s)))
    ELSE /\ s # <<>>
         /\ (Head(p) = "_" \/ Lower(Head(p)) = Lower(Head(s)))
         /\ Like(Tail(p), Tail(s))

\* The ASCII code of a character of a repository name.
Code(c) ==
    CASE c = "A" -> 65
      [] c = "a" -> 97
      [] c = "b" -> 98

RECURSIVE Less(_, _)
\* s before t in the order of the index idx_name (collation BINARY).
Less(s, t) ==
    IF t = <<>> THEN FALSE
    ELSE IF s = <<>> THEN TRUE
    ELSE IF Head(s) = Head(t) THEN Less(Tail(s), Tail(t))
    ELSE Code(Head(s)) < Code(Head(t))

\* The names in the order of the index idx_name, which holds each name once.
IndexOrder(repos) ==
    LET names == {repos[i] : i \in DOMAIN repos}
    IN [i \in 1..Cardinality(names) |->
           CHOOSE r \in names : Cardinality({q \in names : Less(q, r)}) = i - 1]

\* The select has no order by: sqlite returns the names in the order of its
\* scan, of the table (by rowid) or of the covering index idx_name (by name),
\* as its planner chooses.
ScanPlans == {"table", "index"}

ScanOrder(repos, p) == IF p = "index" THEN IndexOrder(repos) ELSE repos

\* Mutant: the offset is not applied.
SelectRepositories_noOffset(repos, args, p) ==
    LET all == ScanOrder(repos, p)
        hits == IF Len(args.Keyword) > 0
                THEN SelectSeq(all, LAMBDA r : Like(<<"%">> \o args.Keyword \o <<"%">>, r))
                ELSE all
    IN SubSeq(hits, 1, IF args.Limit < Len(hits) THEN args.Limit ELSE Len(hits))

\* select repository from repositories [where repository like ?] limit ? offset ?
\* with "%"+Keyword+"%", Limit and Skip.
SelectRepositories(repos, args, p) ==
    LET all == ScanOrder(repos, p)
        hits == IF Len(args.Keyword) > 0
                THEN SelectSeq(all, LAMBDA r : Like(<<"%">> \o args.Keyword \o <<"%">>, r))
                ELSE all
        last == IF args.Skip + args.Limit < Len(hits) THEN args.Skip + args.Limit ELSE Len(hits)
    IN IF args.Skip >= Len(hits) THEN <<>> ELSE SubSeq(hits, args.Skip + 1, last)

\* select ... from tags where repository = ?
SelectTags(tgs, repo) == SelectSeq(tgs, LAMBDA x : x.repository = repo)

ErrScan == "sql: Scan error"

\* What can fail inside GetPage's loop: the tag rows whose Scan fails, and
\* the repositories whose row is not scanned or whose tags are not queried.
Fails(rows, query) == [rows |-> rows, query |-> query]

NoFails == Fails({}, {})

RECURSIVE ScanTags(_, _, _)
\* The loop over tags.Next(): err is assigned by the Scan of every row, a
\* row is appended when its own Scan succeeded. acc is [Tags, err] so far.
ScanTags(rows, bad, acc) ==
    IF rows = <<>> THEN acc
    ELSE LET err == IF Head(rows) \in bad THEN ErrScan ELSE Nil
         IN ScanTags(Tail(rows), bad,
                     [Tags |-> IF err = Nil THEN Append(acc.Tags, Head(rows)) ELSE acc.Tags,
                      err |-> err])

\* The body of the loop over rows.Next() for the row of repository repo: the
\* record is appended unless err is not nil once the tags are read.
LoopBody(records, tgs, repo, fails) ==
    IF repo \in fails.query THEN records
    ELSE LET r == ScanTags(SelectTags(tgs, repo), fails.rows, [Tags |-> <<>>, err |-> Nil])
         IN IF r.err # Nil THEN records
            ELSE Append(records, [Repository |-> repo, Tags |-> r.Tags])

RECURSIVE Loop(_, _, _, _)
Loop(rows, records, tgs, fails) ==
    IF rows = <<>> THEN records
    ELSE Loop(Tail(rows), LoopBody(records, tgs, Head(rows), fails), tgs, fails)

\* IndexService.GetPage on one state of the catalog (ok: Prepare and Query
\* of the select succeed): the arguments it ran with, the records and the error.
GetPage(repos, tgs, args, p, fails, ok) ==
    LET a == prepare(args)
    IN IF ok
       THEN [args |-> a, records |-> Loop(SelectRepositories(repos, a, p), <<>>, tgs, fails),
             err |-> Nil]
       ELSE [args |-> a, records |-> <<>>, err |-> ErrStorage]

\* No call of GetPage yet. n tells one call from the next, pc and rows are
\* the place of a call in its loop, during is the set of the states the
\* catalog went through while the call ran.
NoCall ==
    [n |-> 0, pc |-> "idle", via |-> "none", form |-> NoForm, args |-> QueryArgs(<<>>, 0, 0),
     rows |-> <<>>, records |-> <<>>, err |-> Nil, fails |-> NoFails, during |-> {}]

\* A client that pages has not started.
NoPager == [pc |-> "idle", Limit |-> 0, First |-> 0, Skip |-> 0, listed |-> <<>>]

-----------------------------------------------------------------------------
(* State *)

TypeOK ==
    /\ repositories \in Seq(Repos \cup ListRepos)
    /\ \A i \in DOMAIN tags : tags[i].repository \in Repos \cup ListRepos
    /\ now \in 0..MaxClock
    /\ pc \in [Writers -> {"idle", "loop", "prune", "tag"}]
    /\ left \in [Writers -> Nat]
    /\ cur \in [Writers -> Events \cup TagEvents \cup ListEvents \cup {NoEvent}]
    /\ prev \in [Writers -> Events \cup TagEvents \cup ListEvents \cup {NoEvent}]
    /\ ret \in [Writers -> {"running", Nil, ErrStorage}]
    /\ taken \in Nat
    /\ http.n \in 0..MaxPatch
    /\ plan \in ScanPlans
    /\ get.pc \in {"idle", "rows", "done"}
    /\ pager.pc \in {"idle", "paging", "done"}

\* The state after New, no reader yet.
InitCatalog ==
    /\ repositories = <<>>
    /\ tags = <<>>
    /\ now = 0
    /\ pc = [w \in Writers |-> "idle"]
    /\ left = [w \in Writers |-> 0]
    /\ cur = [w \in Writers |-> NoEvent]
    /\ prev = [w \in Writers |-> NoEvent]
    /\ ret = [w \in Writers |-> Nil]
    /\ taken = 0
    /\ http = NoRequest
    /\ get = NoCall
    /\ pager = NoPager

\* Write and SetTagStatus do not read the plan of the select.
Init == InitCatalog /\ plan = "table"

\* With readers: sqlite's planner has made its choice.
InitRead == InitCatalog /\ plan \in ScanPlans

-----------------------------------------------------------------------------
(* Actions *)

\* time.Now() advances.
Tick ==
    /\ now < MaxClock
    /\ now' = now + 1
    /\ UNCHANGED <<repositories, tags, pc, left, cur, prev, ret, taken, http, others>>

\* Write(events...) is called with a batch of n events (max: the events the
\* model hands out in all).
WriteCall(w, n, max) ==
    /\ pc[w] = "idle"
    /\ taken + n <= max
    /\ taken' = taken + n
    /\ pc' = [pc EXCEPT ![w] = "loop"]
    /\ left' = [left EXCEPT ![w] = n]
    /\ ret' = [ret EXCEPT ![w] = "running"]
    /\ cur' = [cur EXCEPT ![w] = NoEvent]
    /\ prev' = [prev EXCEPT ![w] = NoEvent]
    /\ UNCHANGED <<repositories, tags, now, http, others>>

\* A statement of writer w failed: delete or add returns the error, and Write
\* with it.
Fail(w) ==
    /\ ret' = [ret EXCEPT ![w] = ErrStorage]
    /\ pc' = [pc EXCEPT ![w] = OnError]

\* One turn of Write's loop, up to its first statement: the next event e of
\* the batch is dispatched, and the first statement of delete or add runs
\* (ok: the statement succeeds). What a reader makes of it is left open.
WriteEventStmt(w, e, ok) ==
    /\ pc[w] = "loop"
    /\ left[w] > 0
    /\ left' = [left EXCEPT ![w] = left[w] - 1]
    /\ cur' = [cur EXCEPT ![w] = e]
    /\ prev' = [prev EXCEPT ![w] = cur[w]]
    /\ IF Dispatch(e) = "delete"
       THEN IF ok
            THEN /\ tags' = DeleteFromTags(tags, e.repository, parseTag(e.url))
                 /\ pc' = [pc EXCEPT ![w] = "prune"]
                 /\ UNCHANGED <<repositories, ret>>
            ELSE /\ Fail(w)
                 /\ UNCHANGED <<repositories, tags>>
       ELSE IF Dispatch(e) = "add"
       THEN IF ok
            THEN /\ repositories' = ReplaceIntoRepositories(repositories, e.repository)
                 /\ pc' = [pc EXCEPT ![w] = "tag"]
                 /\ UNCHANGED <<tags, ret>>
            ELSE /\ Fail(w)
                 /\ UNCHANGED <<repositories, tags>>
       ELSE /\ ok
            /\ UNCHANGED <<repositories, tags, pc, ret>>
    /\ UNCHANGED <<now, taken, http>>

WriteEvent(w, e, ok) == WriteEventStmt(w, e, ok) /\ UNCHANGED others

\* delete's second statement: the repositories without a tag are removed.
deletePruneStmt(w, ok) ==
    /\ pc[w] = "prune"
    /\ IF ok
       THEN /\ repositories' = DeleteOrphanRepositories(repositories, tags)
            /\ pc' = [pc EXCEPT ![w] = "loop"]
            /\ UNCHANGED ret
       ELSE /\ Fail(w)
            /\ UNCHANGED repositories
    /\ UNCHANGED <<tags, now, left, cur, prev, taken, http>>

deletePrune(w, ok) == deletePruneStmt(w, ok) /\ UNCHANGED others

\* add's second statement: the tag row is replaced, stamped time.Now().
addTagStmt(w, ok) ==
    /\ pc[w] = "tag"
    /\ LET e == cur[w]
       IN IF ok
          THEN /\ tags' = ReplaceIntoTags(tags, e.repository, parseTag(e.url), e.digest, e.url, now)
               /\ pc' = [pc EXCEPT ![w] = "loop"]
               /\ UNCHANGED ret
          ELSE /\ Fail(w)
               /\ UNCHANGED tags
    /\ UNCHANGED <<repositories, now, left, cur, prev, taken, http>>

addTag(w, ok) == addTagStmt(w, ok) /\ UNCHANGED others

\* One turn of Write's loop from the dispatch of event e to the return of
\* delete or add, no other caller's statement in between and no statement
\* failing.
WriteTurn(w, e) ==
    /\ pc[w] = "loop"
    /\ left[w] > 0
    /\ left' = [left EXCEPT ![w] = left[w] - 1]
    /\ cur' = [cur EXCEPT ![w] = e]
    /\ prev' = [prev EXCEPT ![w] = cur[w]]
    /\ IF Dispatch(e) = "delete"
       THEN /\ tags' = DeleteFromTags(tags, e.repository, parseTag(e.url))
            /\ repositories' = DeleteOrphanRepositories(repositories, tags')
       ELSE IF Dispatch(e) = "add"
       THEN /\ repositories' = ReplaceIntoRepositories(repositories, e.repository)
            /\ tags' = ReplaceIntoTags(tags, e.repository, parseTag(e.url), e.digest, e.url, now)
       ELSE UNCHANGED <<repositories, tags>>
    /\ UNCHANGED <<now, pc, ret, taken, http, others>>

\* The batch is exhausted: Write returns nil.
WriteReturn(w) ==
    /\ pc[w] = "loop"
    /\ left[w] = 0
    /\ pc' = [pc EXCEPT ![w] = "idle"]
    /\ ret' = [ret EXCEPT ![w] = Nil]
    /\ UNCHANGED <<repositories, tags, now, left, cur, prev, taken, http, others>>

\* PATCH: tagStatusHandler.SetTagStatus decodes the body, runs the UPDATE and
\* answers with a status code.
SetTagStatus(body, ok) ==
    /\ http.n < MaxPatch
    /\ IF ~body.valid
       THEN /\ ok
            /\ http' = [n |-> http.n + 1, body |-> body, code |-> 400]
            /\ UNCHANGED tags
       ELSE LET err == SetTagStatusErr(tags, body.repository, body.tag, ok)
            IN /\ tags' = IF ok
                          THEN UpdateTagStatus(tags, body.repository, body.tag, body.status,
                                               body.description, body.target_url)
                          ELSE tags
               /\ http' = [n |-> http.n + 1, body |-> body, code |-> StatusCode(err)]
    /\ UNCHANGED <<repositories, now, pc, left, cur, prev, ret, taken, others>>

-----------------------------------------------------------------------------
(* Actions of the readers *)

\* A call of GetPage has returned r: get is its record.
Called(via, form, fails, r) ==
    get' = [n |-> 1 - get.n, pc |-> "done", via |-> via, form |-> form, args |-> r.args,
            rows |-> <<>>, records |-> r.records, err |-> r.err, fails |-> fails,
            during |-> {}]

\* GET with the form: indexHandler.GetPage builds the arguments and calls
\* IndexService.GetPage, no write in between.
GetPageRequest(form, ok) ==
    /\ Called("request", form, NoFails,
              GetPage(repositories, tags, HandlerArgs(form), plan, NoFails, ok))
    /\ UNCHANGED <<repositories, tags, now, pc, left, cur, prev, ret, taken, http, plan, pager>>

\* GetPage with Scans and tag queries that fail.
GetPageScan(fails) ==
    /\ Called("scan", NoForm, fails,
              GetPage(repositories, tags, QueryArgs(<<>>, 0, 0), plan, fails, TRUE))
    /\ UNCHANGED <<repositories, tags, now, pc, left, cur, prev, ret, taken, http, plan, pager>>

\* A client starts to page with limit L: skip = S, S + L, S + 2L, ...
PagerStart(L, S) ==
    /\ pager.pc # "paging"
    /\ pager' = [pc |-> "paging", Limit |-> L, First |-> S, Skip |-> S, listed |-> <<>>]
    /\ UNCHANGED <<repositories, tags, now, pc, left, cur, prev, ret, taken, http, plan, get>>

\* The client gets its next page and stops at an empty one.
PagerNext ==
    /\ pager.pc = "paging"
    /\ LET r == GetPage(repositories, tags, QueryArgs(<<>>, pager.Skip, pager.Limit), plan,
                        NoFails, TRUE)
           names == [i \in DOMAIN r.records |-> r.records[i].Repository]
       IN /\ Called("pager", NoForm, NoFails, r)
          /\ pager' = [pager EXCEPT !.listed = @ \o names,
                                    !.Skip = @ + pager.Limit,
                                    !.pc = IF names = <<>> THEN "done" ELSE "paging"]
    /\ UNCHANGED <<repositories, tags, now, pc, left, cur, prev, ret, taken, http, plan>>

\* GetPage up to its loop: the select of the repositories has run.
GetPageQuery(args) ==
    /\ get.pc = "idle"
    /\ get' = [NoCall EXCEPT !.n = 1 - get.n, !.pc = "rows", !.via = "steps",
                             !.args = prepare(args),
                             !.rows = SelectRepositories(repositories, prepare(args), plan),
                             !.during = {<<repositories, tags>>}]
    /\ UNCHANGED <<repositories, tags, now, pc, left, cur, prev, ret, taken, http, plan, pager>>

\* One turn of GetPage's loop: the tags of the next repository are read.
GetPageTags ==
    /\ get.pc = "rows"
    /\ get.rows # <<>>
    /\ get' = [get EXCEPT !.rows = Tail(@),
                          !.records = LoopBody(@, tags, Head(get.rows), NoFails)]
    /\ UNCHANGED <<repositories, tags, now, pc, left, cur, prev, ret, taken, http, plan, pager>>

\* rows.Next() is false: GetPage returns the records.
GetPageReturn ==
    /\ get.pc = "rows"
    /\ get.rows = <<>>
    /\ get' = [get EXCEPT !.pc = "done"]
    /\ UNCHANGED <<repositories, tags, now, pc, left, cur, prev, ret, taken, http, plan, pager>>

\* A statement ran while a call of GetPage is in its loop: the catalog it
\* leaves is one of the states the catalog had during the call.
Observe ==
    /\ get' = IF get.pc = "rows"
              THEN [get EXCEPT !.during = @ \cup {<<repositories', tags'>>}]
              ELSE get
    /\ UNCHANGED <<plan, pager>>

WriteEventDuring(w, e) == WriteEventStmt(w, e, TRUE) /\ Observe

deletePruneDuring(w) == deletePruneStmt(w, TRUE) /\ Observe

addTagDuring(w) == addTagStmt(w, TRUE) /\ Observe

-----------------------------------------------------------------------------
(* Specifications *)

Next ==
    \/ Tick
    \/ \E w \in Writers, n \in 0..MaxBatch : WriteCall(w, n, MaxEvents)
    \/ \E w \in Writers, e \in Events, ok \in BOOLEAN : WriteEvent(w, e, ok)
    \/ \E w \in Writers, ok \in BOOLEAN : deletePrune(w, ok)
    \/ \E w \in Writers, ok \in BOOLEAN : addTag(w, ok)
    \/ \E w \in Writers : WriteReturn(w)
    \/ \E body \in PatchBodies \cup {BadBody}, ok \in BOOLEAN : SetTagStatus(body, ok)

\* Concurrent batches whose statements interleave, PATCH requests, failing
\* statements.
Spec == Init /\ [][Next]_vars

NextSeq ==
    \/ Tick
    \/ \E n \in 0..MaxBatch : WriteCall(1, n, MaxSeqEvents)
    \/ \E e \in Events : WriteTurn(1, e)
    \/ WriteReturn(1)

\* Events processed one at a time by one caller of Write, no statement failing.
SpecSeq == Init /\ [][NextSeq]_vars

NextPatch ==
    \/ Tick
    \/ \E n \in 0..MaxBatch : WriteCall(1, n, MaxPatchEvents)
    \/ \E e \in Events : WriteTurn(1, e)
    \/ WriteReturn(1)
    \/ \E body \in PatchBodies \cup {BadBody} : SetTagStatus(body, TRUE)

\* Events processed one at a time and PATCH requests between them, no
\* statement failing.
SpecPatch == Init /\ [][NextPatch]_vars

NextFail ==
    \/ Tick
    \/ \E n \in 0..MaxBatch : WriteCall(1, n, MaxFailEvents)
    \/ \E e \in Events, ok \in BOOLEAN : WriteEvent(1, e, ok)
    \/ \E ok \in BOOLEAN : deletePrune(1, ok)
    \/ \E ok \in BOOLEAN : addTag(1, ok)
    \/ WriteReturn(1)

\* One caller of Write, statements failing.
SpecFail == Init /\ [][NextFail]_vars

NextTag ==
    \/ \E n \in 0..MaxBatch : WriteCall(1, n, MaxTagEvents)
    \/ \E e \in TagEvents : WriteTurn(1, e)
    \/ WriteReturn(1)

\* Events with every URL of up to MaxURLLen characters, processed one at a
\* time, no statement failing.
SpecTag == Init /\ [][NextTag]_vars

NextPage ==
    \/ pager.pc = "idle" /\ \E n \in 0..MaxBatch : WriteCall(1, n, MaxPageEvents)
    \/ pager.pc = "idle" /\ \E e \in ListEvents : WriteTurn(1, e)
    \/ pager.pc = "idle" /\ WriteReturn(1)
    \/ \E L \in 1..MaxLimit, S \in 0..MaxSkip : PagerStart(L, S)
    \/ PagerNext

\* Clients that page on the catalog that the events have built: no event is
\* processed once a client has started.
SpecPage == InitRead /\ [][NextPage]_vars

NextForm ==
    \/ \E n \in 0..MaxBatch : WriteCall(1, n, MaxFormEvents)
    \/ \E e \in ListEvents : WriteTurn(1, e)
    \/ WriteReturn(1)
    \/ get.pc = "idle" /\ \E form \in Forms, ok \in BOOLEAN : GetPageRequest(form, ok)

\* One request, before, between or after the events.
SpecForm == InitRead /\ [][NextForm]_vars

NextRepush ==
    \/ \E n \in 0..MaxBatch : WriteCall(1, n, MaxRepushEvents)
    \/ \E e \in ListEvents :
           /\ pager.pc = "paging" => IsPush(e) /\ e.repository \in {repositories[i] : i \in DOMAIN repositories}
           /\ WriteTurn(1, e)
    \/ WriteReturn(1)
    \/ \E L \in 1..MaxLimit : PagerStart(L, 0)
    \/ PagerNext

\* A paging client, and between its pages pushes for repositories that have
\* a row: the set of repository names is the same for all its pages.
SpecRepush == InitRead /\ [][NextRepush]_vars

NextScan ==
    \/ \E n \in 0..MaxBatch : WriteCall(1, n, MaxScanEvents)
    \/ \E e \in Events : WriteTurn(1, e)
    \/ WriteReturn(1)
    \/ \E rows \in SUBSET {tags[i] : i \in DOMAIN tags},
          query \in SUBSET {repositories[i] : i \in DOMAIN repositories} :
           GetPageScan(Fails(rows, query))

\* Calls of GetPage in which Scans and tag queries fail.
SpecScan == InitRead /\ [][NextScan]_vars

NextRead ==
    \/ \E n \in 0..MaxBatch : WriteCall(1, n, MaxReadEvents)
    \/ \E e \in Events : WriteEventDuring(1, e)
    \/ deletePruneDuring(1)
    \/ addTagDuring(1)
    \/ WriteReturn(1)
    \/ GetPageQuery(QueryArgs(<<>>, 0, 0))
    \/ GetPageTags
    \/ GetPageReturn

\* One call of GetPage, statement by statement, and a caller of Write whose
\* statements run between those of GetPage.
SpecRead == InitRead /\ [][NextRead]_vars

-----------------------------------------------------------------------------
(* Properties *)

RepoNames(repos) == {repos[i] : i \in DOMAIN repos}

\* The rows of the tags table with key (repo, tag).
RowsOf(tgs, repo, tag) == {i \in DOMAIN tgs : tgs[i].repository = repo /\ tgs[i].tag = tag}

\* The rows of the tags table of repository repo.
RowsOfRepo(tgs, repo) == {i \in DOMAIN tgs : tgs[i].repository = repo}

TheRow(tgs, repo, tag) == tgs[CHOOSE i \in RowsOf(tgs, repo, tag) : TRUE]

\* Writer w takes the next event of its batch in this step: cur'[w].
Takes(w) == pc[w] = "loop" /\ left'[w] = left[w] - 1

SameKey(e, f) == e.repository = f.repository /\ parseTag(e.url) = parseTag(f.url)

PushAV1 == Event(EventActionPush, ManifestMediaType, <<"a">>, <<"m", "/", "v">>, "sha256:1")
PushAV2 == Event(EventActionPush, ManifestMediaType, <<"a">>, <<"m", "/", "v">>, "sha256:2")
PushAW1 == Event(EventActionPush, ManifestMediaType, <<"a">>, <<"w">>, "sha256:1")
DeleteAV == Event(EventActionDelete, ManifestMediaType, <<"a">>, <<"m", "/", "v">>, "sha256:1")
DeleteAW == Event(EventActionDelete, ManifestMediaType, <<"a">>, <<"w">>, "sha256:1")
PullAV == Event(EventActionPull, ManifestMediaType, <<"a">>, <<"m", "/", "v">>, "sha256:2")

\* C1: events processed one at a time from the empty catalog, no statement
\* failing: a repository row for R exists iff some tag row has repository R.
C1_RepositoryIffTag ==
    \A R \in Repos :
        (\E i \in DOMAIN repositories : repositories[i] = R)
            <=> (\E j \in DOMAIN tags : tags[j].repository = R)

\* Repository a keeps its row after one of its two tags was deleted.
C1_Witness ==
    /\ taken = 3 /\ left[1] = 0
    /\ prev[1] = PushAW1 /\ cur[1] = DeleteAV
    /\ repositories = <<(<<"a">>)>>
    /\ Len(tags) = 1 /\ tags[1].tag = <<>>

\* C2: a PATCH whose (repository, tag) has no tag row is answered 404 and
\* creates no tag row and no repository row. (A request whose UPDATE
\* statement fails is answered 500 and is left out.)
C2_MissingPatchTarget ==
    [][(/\ http'.n = http.n + 1
        /\ http'.body.valid
        /\ http'.code # 500
        /\ RowsOf(tags, http'.body.repository, http'.body.tag) = {})
       => (/\ http'.code = 404
           /\ tags' = tags
           /\ repositories' = repositories)]_vars

\* C3: with batches processed concurrently, every tag row's repository has a
\* repository row in every reachable state.
C3_TagHasRepository ==
    \A i \in DOMAIN tags : tags[i].repository \in RepoNames(repositories)

\* C4: push of tag T for repository R, then delete of T: no tag row (R, T) is
\* left, and no repository row R when R had no other tag before the push.
C4_PushThenDelete ==
    [][LET e == cur'[1] IN
        (/\ Takes(1)
         /\ IsManifest(e) /\ IsDelete(e)
         /\ IsManifest(cur[1]) /\ IsPush(cur[1])
         /\ SameKey(cur[1], e))
        => (/\ RowsOf(tags', e.repository, parseTag(e.url)) = {}
            /\ (RowsOfRepo(tags, e.repository) = RowsOf(tags, e.repository, parseTag(e.url))
                => e.repository \notin RepoNames(repositories')))]_vars

\* A batch of a push and the delete of the same tag was processed, and the
\* catalog is empty again.
C4_Witness ==
    /\ taken = 2 /\ left[1] = 0
    /\ prev[1] = PushAV1 /\ cur[1] = DeleteAV
    /\ tags = <<>>
    /\ repositories = <<>>

\* C5 as stated: the same push event applied twice in a row leaves the same
\* tag row, updated_at included, and the same set of repository names.
C5_SamePushTwice_Original ==
    [][LET e == cur'[1] IN
        (/\ Takes(1)
         /\ IsManifest(e) /\ IsPush(e)
         /\ cur[1] = e)
        => (/\ Cardinality(RowsOf(tags', e.repository, parseTag(e.url))) = 1
            /\ TheRow(tags', e.repository, parseTag(e.url))
                   = TheRow(tags, e.repository, parseTag(e.url))
            /\ RepoNames(repositories') = RepoNames(repositories))]_vars

\* C5 amended: the same push event applied twice in a row leaves the same tag
\* row but for updated_at, which is the time of the second application, and
\* the same set of repository names.
C5_SamePushTwice ==
    [][LET e == cur'[1] IN
        (/\ Takes(1)
         /\ IsManifest(e) /\ IsPush(e)
         /\ cur[1] = e)
        => LET old == TheRow(tags, e.repository, parseTag(e.url))
               new == TheRow(tags', e.repository, parseTag(e.url))
           IN /\ Cardinality(RowsOf(tags', e.repository, parseTag(e.url))) = 1
              /\ [new EXCEPT !.updated_at = old.updated_at] = old
              /\ new.updated_at = now
              /\ new.updated_at >= old.updated_at
              /\ RepoNames(repositories') = RepoNames(repositories)]_vars

\* A batch of the same push twice was processed, the second time at time 1.
C5_Witness ==
    /\ taken = 2 /\ left[1] = 0
    /\ prev[1] = PushAV1 /\ cur[1] = PushAV1
    /\ Len(tags) = 1 /\ tags[1].updated_at = 1 /\ tags[1].digest = "sha256:1"
    /\ repositories = <<(<<"a">>)>>

\* At most one tag row per (repository, tag), at most one repository row per name.
UniqueKeys ==
    /\ \A i, j \in DOMAIN tags :
           tags[i].repository = tags[j].repository /\ tags[i].tag = tags[j].tag => i = j
    /\ \A i, j \in DOMAIN repositories : repositories[i] = repositories[j] => i = j

\* C6: keys are unique in every reachable state (in the first, and after
\* every step), and a push for an existing
\* (R, T), also one that a status patch precedes, leaves exactly one row for
\* (R, T), with the new digest and URL, status "unset" and empty description
\* and target_url.
C6_UniqueAndOverwritten ==
    /\ UniqueKeys
    /\ [][/\ UniqueKeys'
          /\ LET e == cur'[1] IN
            (/\ Takes(1)
             /\ IsManifest(e) /\ IsPush(e)
             /\ RowsOf(tags, e.repository, parseTag(e.url)) # {})
            => LET new == TheRow(tags', e.repository, parseTag(e.url))
               IN /\ Cardinality(RowsOf(tags', e.repository, parseTag(e.url))) = 1
                  /\ new.digest = e.digest
                  /\ new.url = e.url
                  /\ new.status = "unset"
                  /\ new.description = ""
                  /\ new.target_url = ""]_vars

\* A tag was pushed, a PATCH for it was answered 204, and it was pushed again
\* with another digest: its one row has the new digest and no status.
C6_Witness ==
    /\ taken = 2 /\ left[1] = 0
    /\ prev[1] = PushAV1 /\ cur[1] = PushAV2
    /\ http.n = 1 /\ http.code = 204
    /\ http.body.repository = <<"a">> /\ http.body.tag = <<"v">>
    /\ Len(tags) = 1 /\ tags[1].digest = "sha256:2" /\ tags[1].status = "unset"

\* C7: a PATCH answered 204 for an existing (R, T) sets that row's status,
\* description and target_url to the values given and leaves its digest, url
\* and updated_at as they were; every other tag row and every repository row
\* is unchanged.
C7_PatchFrame ==
    [][(/\ http'.n = http.n + 1
        /\ http'.code = 204
        /\ RowsOf(tags, http'.body.repository, http'.body.tag) # {})
       => LET b == http'.body
          IN /\ repositories' = repositories
             /\ DOMAIN tags' = DOMAIN tags
             /\ \A i \in DOMAIN tags :
                    IF i \in RowsOf(tags, b.repository, b.tag)
                    THEN /\ tags'[i].status = b.status
                         /\ tags'[i].description = b.description
                         /\ tags'[i].target_url = b.target_url
                         /\ tags'[i].repository = tags[i].repository
                         /\ tags'[i].tag = tags[i].tag
                         /\ tags'[i].digest = tags[i].digest
                         /\ tags'[i].url = tags[i].url
                         /\ tags'[i].updated_at = tags[i].updated_at
                    ELSE tags'[i] = tags[i]]_vars

\* Repository a has two tags, and the PATCH of one of them was answered 204:
\* that row carries the status, the other row does not.
C7_Witness ==
    /\ http.n = 1 /\ http.code = 204
    /\ http.body.repository = <<"a">> /\ http.body.tag = <<"v">>
    /\ Len(tags) = 2
    /\ \E i, j \in DOMAIN tags :
           /\ tags[i].repository = <<"a">> /\ tags[i].tag = <<"v">>
           /\ tags[i].status = "passed" /\ tags[i].description = "scanned"
           /\ tags[j].repository = <<"a">> /\ tags[j].tag = <<>>
           /\ tags[j].status = "unset"

\* C8: when an event of a batch fails, Write returns that error, the catalog
\* keeps what the earlier events did, and no later event of the batch is
\* taken: once the error is returned and until Write is called again, the
\* catalog and the events left over stay as they are.
C8_FirstErrorAborts ==
    [][\A w \in Writers :
        ret'[w] = ErrStorage
        => (/\ pc'[w] = "idle"
            /\ repositories' = repositories
            /\ tags' = tags
            /\ (ret[w] = ErrStorage => left'[w] = left[w] /\ cur'[w] = cur[w]))]_vars

\* In a batch of three, the first event pushed a tag, the second failed and
\* the third is left over; the tag row of the first is in the catalog.
C8_Witness ==
    /\ taken = 3 /\ left[1] = 1
    /\ ret[1] = ErrStorage /\ pc[1] = "idle"
    /\ prev[1] = PushAV1 /\ cur[1] = DeleteAV
    /\ Len(tags) = 1 /\ tags[1].tag = <<"v">>

\* C9: an event whose media type is not the manifest media type, or whose
\* action is neither push nor delete, changes neither table and produces no
\* error, wherever it comes in a batch.
C9_OtherEventsIgnored ==
    [][\A w \in Writers : LET e == cur'[w] IN
        (/\ Takes(w)
         /\ \/ e.mediaType # ManifestMediaType
            \/ e.action \notin {EventActionPush, EventActionDelete})
        => (/\ repositories' = repositories
            /\ tags' = tags
            /\ ret'[w] = "running"
            /\ pc'[w] = "loop")]_vars

\* A layer delete for a tag that has a row came second in a batch of three:
\* the row is still there and the batch goes on.
C9_Witness ==
    /\ taken = 3 /\ left[1] = 1
    /\ prev[1] = PushAV1
    /\ cur[1] = Event(EventActionDelete, LayerMediaType, <<"a">>, <<"m", "/", "v">>, "sha256:2")
    /\ pc[1] = "loop" /\ ret[1] = "running"
    /\ Len(tags) = 1 /\ tags[1].tag = <<"v">>
    /\ repositories = <<(<<"a">>)>>

\* C10: a delete event for a (repository, tag) without a tag row returns no
\* error and, when every repository row has a tag row and every tag row a
\* repository row, leaves both tables as they are.
C10_DeleteAbsent ==
    [][LET e == cur'[1] IN
        (/\ Takes(1)
         /\ IsManifest(e) /\ IsDelete(e)
         /\ RowsOf(tags, e.repository, parseTag(e.url)) = {})
        => (/\ ret'[1] = "running"
            /\ pc'[1] = "loop"
            /\ (C1_RepositoryIffTag => repositories' = repositories /\ tags' = tags))]_vars

\* A batch of two: a push of tag v of repository a, then a delete of its tag
\* "", which never had a row; the row of v and the repository row remain.
C10_Witness ==
    /\ taken = 2 /\ left[1] = 0
    /\ prev[1] = PushAV1 /\ cur[1] = DeleteAW
    /\ pc[1] = "loop" /\ ret[1] = "running"
    /\ Len(tags) = 1 /\ tags[1].tag = <<"v">>
    /\ repositories = <<(<<"a">>)>>

DeleteBV == Event(EventActionDelete, ManifestMediaType, <<"b">>, <<"m", "/", "v">>, "sha256:1")

\* C14: the second statement of a delete event that completes leaves no
\* repository row without a tag row, whichever repository and tag the event
\* names and however the row came to be without one (a push whose tag
\* statement failed, a delete whose prune failed): every repository that had
\* no tag row when the prune ran is gone after it.
C14_NextDeleteHeals ==
    [][(pc[1] = "prune" /\ pc'[1] = "loop")
       => (/\ \A R \in Repos : RowsOfRepo(tags, R) = {} => R \notin RepoNames(repositories')
           /\ \A R \in RepoNames(repositories') : RowsOfRepo(tags', R) # {})]_vars

\* An earlier batch left repository a with a row and no tag row; a delete
\* event naming repository b has run its first statement and is about to prune.
C14_Witness ==
    /\ taken = 2 /\ left[1] = 0
    /\ cur[1] = DeleteBV /\ pc[1] = "prune"
    /\ repositories = <<(<<"a">>)>>
    /\ tags = <<>>

\* C19: a push event that returns an error leaves no repository row without a
\* tag row: when the tag statement of add fails after the repository
\* statement ran, the event's repository has a tag row or no repository row.
C19_FailedPushKeepsInvariant ==
    [][(pc[1] = "tag" /\ ret'[1] = ErrStorage)
       => LET R == cur[1].repository
          IN R \in RepoNames(repositories') => RowsOfRepo(tags', R) # {}]_vars

\* The text after the last "/" of url, the empty string when url has none.
AfterLastSlash(url) ==
    IF \A i \in DOMAIN url : url[i] # "/" THEN <<>>
    ELSE LET k == CHOOSE i \in DOMAIN url :
                      url[i] = "/" /\ \A j \in DOMAIN url : j > i => url[j] # "/"
         IN SubSeq(url, k + 1, Len(url))

\* The rows of tgs with a key other than (repo, tag), in their order.
OtherRows(tgs, repo, tag) == SelectSeq(tgs, LAMBDA x : ~(x.repository = repo /\ x.tag = tag))

\* C13: the tag name of a push or delete event is the text after the last
\* "/" of its URL (the empty string for a URL ending in "/" or without "/"):
\* a push leaves one row with that tag name and the URL, a delete leaves no
\* row with that tag name, so that the delete of a URL removes the row its
\* push wrote; the rows of every other key stay.
C13_TagAfterLastSlash ==
    [][LET e == cur'[1]
           t == AfterLastSlash(e.url)
       IN Takes(1)
          => /\ OtherRows(tags', e.repository, t) = OtherRows(tags, e.repository, t)
             /\ IsPush(e) => /\ Cardinality(RowsOf(tags', e.repository, t)) = 1
                             /\ TheRow(tags', e.repository, t).url = e.url
             /\ IsDelete(e) => RowsOf(tags', e.repository, t) = {}]_vars

\* The push of "v/" of repository a wrote the row of tag "", its only row, and
\* the delete of "v" has removed it: the catalog is empty again.
C13_Witness ==
    /\ taken = 2 /\ left[1] = 0
    /\ prev[1] = Event(EventActionPush, ManifestMediaType, <<"a">>, <<"v", "/">>, "sha256:1")
    /\ cur[1] = Event(EventActionDelete, ManifestMediaType, <<"a">>, <<"v">>, "sha256:1")
    /\ tags = <<>>
    /\ repositories = <<>>

Min(a, b) == IF a < b THEN a ELSE b

Max(a, b) == IF a > b THEN a ELSE b

\* The repository names of the records, in their order.
NamesOf(records) == [i \in DOMAIN records |-> records[i].Repository]

NoRepeat(names) == \A i, j \in DOMAIN names : names[i] = names[j] => i = j

\* GetPage is called in this step.
Calls == get'.n # get.n

\* C11: on a catalog of N repositories that no event changes, GetPage without
\* keyword, with limit L and skip S, returns min(L, max(0, N - S))
\* repositories; the pages of skip = S, S + L, S + 2L, ... up to the first
\* empty one have no repository in common, and with the S repositories
\* before them (none for S = 0) they are all the repositories, each once.
C11_Pages ==
    [][LET N == Len(repositories)
           L == pager.Limit
           S == pager.Skip
       IN (Calls /\ get'.via = "pager")
          => /\ Len(get'.records) = Min(L, Max(0, N - S))
             /\ NoRepeat(pager'.listed)
             /\ pager'.pc = "done"
                => /\ Len(pager'.listed) = Max(0, N - pager.First)
                   /\ pager.First = 0 => RepoNames(pager'.listed) = RepoNames(repositories)
                   /\ \A i \in DOMAIN pager'.listed :
                          Cardinality(RowsOfRepo(tags, pager'.listed[i])) = 1]_vars

\* Three repositories whose rowid order is not their order by name were paged
\* by name with limit 2 from skip 0: pages of 2, 1 and 0 repositories.
C11_Witness ==
    /\ plan = "index"
    /\ repositories = <<(<<"b">>), (<<"a", "b">>), (<<"A">>)>>
    /\ pager.pc = "done" /\ pager.Limit = 2 /\ pager.First = 0 /\ pager.Skip = 6
    /\ pager.listed = <<(<<"A">>), (<<"a", "b">>), (<<"b">>)>>
    /\ get.records = <<>>

\* k is a part of s, character for character.
Contains(s, k) == \E i \in 0..(Len(s) - Len(k)) : SubSeq(s, i + 1, i + Len(k)) = k

\* C12: a request with a keyword K and the default limit, which covers the
\* catalog, returns the repositories whose name contains K as it is written
\* (case-sensitive, "%" and "_" standing for themselves), and no other.
C12_KeywordLiteral ==
    [][(/\ Calls /\ get'.via = "request" /\ get'.err = Nil
        /\ get'.args.Keyword # <<>>
        /\ get'.args.Skip = 0 /\ get'.args.Limit >= Len(repositories))
       => RepoNames(NamesOf(get'.records))
              = {r \in RepoNames(repositories) : Contains(r, get'.args.Keyword)}]_vars

Number(n) == [ok |-> TRUE, n |-> n]

Unparsable == [ok |-> FALSE, n |-> 0]

\* The integer a text of FormTexts is the decimal notation of, if any.
FormValue(text) ==
    CASE text = <<"0">> -> Number(0)
      [] text = <<"1">> -> Number(1)
      [] text = <<"2">> -> Number(2)
      [] text = <<"+", "2">> -> Number(2)
      [] text = <<"-", "1">> -> Number(0 - 1)
      [] text \in {<<>>, <<"x">>, <<"2", "x">>} -> Unparsable

C17_StableOrder ==
    [][/\ (/\ Takes(1) /\ IsManifest(cur'[1]) /\ IsPush(cur'[1])
           /\ cur'[1].repository \in RepoNames(repositories))
          => ScanOrder(repositories', plan) = ScanOrder(repositories, plan)
       /\ (Calls /\ get'.via = "pager" /\ pager'.pc = "done")
          => /\ NoRepeat(pager'.listed)
             /\ RepoNames(pager'.listed) = RepoNames(repositories)]_vars

\* C18: when the Scan of a tag row fails in GetPage, the call returns no
\* error, a repository that is returned has the tag rows that come before
\* its first failing row and none of those after it, and a repository none
\* of whose tag rows fails is returned with all its tag rows.
C18_ScanFailure ==
    [][(Calls /\ get'.via = "scan" /\ get'.fails.query = {})
       => LET bad == get'.fails.rows
              Before(rows) ==
                  LET fail == {i \in DOMAIN rows : rows[i] \in bad}
                  IN IF fail = {} THEN rows
                     ELSE SubSeq(rows, 1, (CHOOSE i \in fail : \A j \in fail : i <= j) - 1)
          IN /\ get'.err = Nil
             /\ \A i \in DOMAIN get'.records :
                    get'.records[i].Tags = Before(SelectTags(tags, get'.records[i].Repository))
             /\ \A R \in RepoNames(repositories) :
                    (\A j \in DOMAIN tags : tags[j].repository = R => tags[j] \notin bad)
                    => R \in RepoNames(NamesOf(get'.records))]_vars

\* C16: a call of GetPage that has returned while batches were processed
\* returned the listing of one of the states the catalog had during the
\* call, and no repository without a tag.
C16_OneState ==
    (get.pc = "done" /\ get.via = "steps")
    => /\ \E c \in get.during :
              get.records = GetPage(c[1], c[2], get.args, plan, NoFails, TRUE).records
       /\ \A i \in DOMAIN get.records : get.records[i].Tags # <<>>

====
